---- MODULE Spec2Model ----
(***************************************************************************)
(* Price-versioning ingestion of the publications database:                *)
(* PublicationImporter (DB/excel_import_script.py) writing the products    *)
(* and prices tables created by DB/db_creation_script.py.                  *)
(*                                                                         *)
(* The specifications share the state and the operators:                   *)
(*   Spec      the importer driven through import_excel_file, one batch    *)
(*             (file) at a time, ending in commit or rollback;             *)
(*   SpecLive  Spec with the fairness of the synchronous import loop;      *)
(*   SpecCalls get_or_create_product and add_price called directly on an   *)
(*             open connection, with arbitrary arguments;                  *)
(*   SpecRace  two importers whose add_price calls interleave between the  *)
(*             UPDATE and the INSERT.                                      *)
(***************************************************************************)
EXTENDS Integers, Sequences, FiniteSets, TLC

(***************************************************************************)
(* Bounds                                                                  *)
(***************************************************************************)
MaxRows == 2        \* rows read from Excel files by one importer
MaxBatches == 2     \* import_excel_file calls on one importer
MaxCalls == 3       \* direct calls in SpecCalls

(***************************************************************************)
(* Values.  A spreadsheet cell or a Python argument is one of              *)
(*   none  Python None                                                     *)
(*   nan   float NaN (pandas' missing value)                               *)
(*   num   a number                                                        *)
(*   text  a string                                                        *)
(* Numbers stand for floats; dates are day numbers (the 'YYYY-MM-DD'       *)
(* strings of the code, which order the same way).                         *)
(***************************************************************************)
None == [kind |-> "none", num |-> 0, txt |-> ""]
NaN == [kind |-> "nan", num |-> 0, txt |-> ""]
Num(n) == [kind |-> "num", num |-> n, txt |-> ""]
Text(s) == [kind |-> "text", num |-> 0, txt |-> s]

NullDate == 0       \* SQL NULL in prices.valid_until

\* pd.isna / pd.notna on a scalar
pd_isna(v) == v.kind \in {"none", "nan"}
pd_notna(v) == ~pd_isna(v)

\* str(x) for the cells the rows carry
str(v) ==
    CASE v.kind = "text" -> v.txt
      [] v.kind = "num" -> ToString(v.num)
      [] v.kind = "nan" -> "nan"
      [] OTHER -> "None"

truthy_not_none(v) == v.kind = "text"

\* Python truthiness of an Optional[str] held as a value
truthy(v) == v.kind = "text" /\ v.txt # ""

\* float(x): the number, NaN, or ValueError/TypeError.
\* Text parses as Python's float() parses it: decimal numerals and the
\* case-insensitive literal nan are accepted, other text raises ValueError.
float(v) ==
    CASE v.kind = "num" -> [exc |-> "none", nan |-> FALSE, val |-> v.num]
      [] v.kind = "nan" -> [exc |-> "none", nan |-> TRUE, val |-> 0]
      [] v.kind = "none" -> [exc |-> "TypeError", nan |-> FALSE, val |-> 0]
      [] v.kind = "text" /\ v.txt = "12" -> [exc |-> "none", nan |-> FALSE, val |-> 12]
      [] v.kind = "text" /\ v.txt = "NAN" -> [exc |-> "none", nan |-> TRUE, val |-> 0]
      [] OTHER -> [exc |-> "ValueError", nan |-> FALSE, val |-> 0]

(***************************************************************************)
(* Input sets                                                              *)
(***************************************************************************)
\* product number cells of a row
NumberCells == {NaN, Text(" "), Text("nan"), Text("A"), Text("B")}
\* product_number arguments of a direct call
NumberArgs == {None, Text(""), Text("A"), Text("B")}
\* price cells / price arguments
PriceCells == {NaN, Text("abc"), Text("NAN"), Num(10)}
PriceArgs == {None, NaN, Text("abc"), Text("NAN"), Text("12"), Num(-5), Num(0), Num(10)}
\* price arguments of the concurrent writers
RacePrices == {Text("abc"), Text("NAN"), Num(10)}
\* description / category / unit cells
AttrCells ==
    { [description |-> Text("d1"), category |-> Text("c1"), unit |-> NaN] }
AttrArgs ==
    { [description |-> None, category |-> None, unit |-> None],
      [description |-> Text("d1"), category |-> Text("c1"), unit |-> Text("u1")] }
\* Excel files: the name and the date extract_date_from_filename derives
Files ==
    { [name |-> "Publications-20240101.xlsx", valid_from |-> 1],
      [name |-> "Publications-20240201.xlsx", valid_from |-> 2] }
\* valid_from and source_file arguments of a direct add_price call
Stamps ==
    { [valid_from |-> 1, source_file |-> "f1"],
      [valid_from |-> 2, source_file |-> "f2"] }
\* product_id arguments of a direct add_price call
ProductIds == {1, 2}
\* a storage fault while a row is processed: none, or the statement that
\* writes the product raises sqlite3.OperationalError
Faults == {"none", "product"}

(***************************************************************************)
(* State                                                                   *)
(***************************************************************************)
VARIABLES
    products,       \* products table as the connection sees it
    prices,         \* prices table as the connection sees it
    committed,      \* both tables as of the last commit
    stats,          \* PublicationImporter.stats
    pc,             \* "idle" or "loop" (inside import_excel_file's for loop)
    file,           \* the file being imported
    nrows,          \* len(df)
    idx,            \* index of the next row
    imported_count,
    skipped_count,
    rowlog,         \* rows of the running batch: what was read, what happened
    nread,          \* rows read so far by this importer
    stats0,         \* stats when the running batch began
    store0,         \* both tables as the connection saw them at that moment
    last,           \* the last operation, its arguments and its result
    nbatches,
    ncalls,
    writers         \* SpecRace: each concurrent writer's place in add_price

vars == <<products, prices, committed, stats, pc, file, nrows, idx,
          imported_count, skipped_count, rowlog, nread, stats0, store0,
          last, nbatches, ncalls, writers>>

NoFile == [name |-> "", valid_from |-> NullDate]

NoData == [product_number |-> None, description |-> None,
           category |-> None, unit |-> None]

NoCall ==
    [op |-> "none", data |-> NoData, product_id |-> 0, price |-> None,
     valid_from |-> NullDate, source_file |-> "", fault |-> "none",
     exc |-> "none", ret |-> 0, outcome |-> "none"]

\* the importers that write to one database at the same time in SpecRace
Writers == {1, 2}

\* an importer that is not inside add_price, with the stats of __init__
IdleWriter ==
    [pc |-> "idle", product_id |-> 0, price |-> None, valid_from |-> NullDate,
     source_file |-> "",
     stats |-> [files_processed |-> 0, products_added |-> 0,
                products_updated |-> 0, prices_added |-> 0, errors |-> <<>>]]

\* PublicationImporter.__init__ on a freshly created database
Init ==
    /\ products = <<>>
    /\ prices = <<>>
    /\ committed = [products |-> <<>>, prices |-> <<>>]
    /\ stats = [files_processed |-> 0, products_added |-> 0,
                products_updated |-> 0, prices_added |-> 0, errors |-> <<>>]
    /\ pc = "idle"
    /\ file = NoFile
    /\ nrows = 0
    /\ idx = 0
    /\ imported_count = 0
    /\ skipped_count = 0
    /\ rowlog = <<>>
    /\ nread = 0
    /\ stats0 = [files_processed |-> 0, products_added |-> 0,
                 products_updated |-> 0, prices_added |-> 0, errors |-> <<>>]
    /\ store0 = [products |-> <<>>, prices |-> <<>>]
    /\ last = NoCall
    /\ nbatches = 0
    /\ ncalls = 0
    /\ writers = [w \in Writers |-> IdleWriter]

(***************************************************************************)
(* get_or_create_product                                                   *)
(***************************************************************************)
\* mutant: the lookup never finds the product
select_product_missing(prods, product_number) == 0

\* SELECT id FROM products WHERE product_number = ? ; fetchone()
select_product(prods, product_number) ==
    LET hits == {i \in 1..Len(prods) : prods[i].product_number = product_number}
    IN IF hits = {} THEN 0
       ELSE prods[CHOOSE i \in hits : \A j \in hits : i <= j].id

\* mutant: the UPDATE keeps a stored attribute when the supplied one is None
update_product_coalesce(prods, product_id, product_data) ==
    LET keep(old, new) == IF new.kind = "none" THEN old ELSE new
    IN [i \in 1..Len(prods) |->
           IF prods[i].id = product_id
           THEN [prods[i] EXCEPT !.description = keep(@, product_data.description),
                                 !.category = keep(@, product_data.category),
                                 !.unit = keep(@, product_data.unit)]
           ELSE prods[i]]

\* UPDATE products SET description = ?, category = ?, unit = ? WHERE id = ?
update_product(prods, product_id, product_data) ==
    [i \in 1..Len(prods) |->
        IF prods[i].id = product_id
        THEN [prods[i] EXCEPT !.description = product_data.description,
                              !.category = product_data.category,
                              !.unit = product_data.unit]
        ELSE prods[i]]

\* INSERT INTO products (product_number, description, category, unit)
\* the new row's id is cursor.lastrowid
insert_product(prods, product_data) ==
    Append(prods, [id |-> Len(prods) + 1,
                   product_number |-> product_data.product_number.txt,
                   description |-> product_data.description,
                   category |-> product_data.category,
                   unit |-> product_data.unit])

\* mutant: the update of an existing product is not counted
get_or_create_product_uncounted(prods, st, product_data, fault) ==
    LET product_number == product_data.product_number
    IN
    IF ~truthy(product_number)
    THEN [products |-> prods, stats |-> st, exc |-> "ValueError", ret |-> 0]
    ELSE
    LET result == select_product(prods, product_number.txt)
    IN
    IF fault = "product"
    THEN [products |-> prods, stats |-> st, exc |-> "sqlite3.OperationalError", ret |-> 0]
    ELSE IF result # 0
    THEN [products |-> update_product(prods, result, product_data),
          stats |-> st, exc |-> "none", ret |-> result]
    ELSE [products |-> insert_product(prods, product_data),
          stats |-> [st EXCEPT !.products_added = @ + 1],
          exc |-> "none", ret |-> Len(prods) + 1]

get_or_create_product(prods, st, product_data, fault) ==
    LET product_number == product_data.product_number
    IN
    IF ~truthy(product_number)
    THEN [products |-> prods, stats |-> st, exc |-> "ValueError", ret |-> 0]
    ELSE
    LET result == select_product(prods, product_number.txt)
    IN
    IF fault = "product"
    THEN [products |-> prods, stats |-> st, exc |-> "sqlite3.OperationalError", ret |-> 0]
    ELSE IF result # 0
    THEN [products |-> update_product(prods, result, product_data),
          stats |-> [st EXCEPT !.products_updated = @ + 1],
          exc |-> "none", ret |-> result]
    ELSE [products |-> insert_product(prods, product_data),
          stats |-> [st EXCEPT !.products_added = @ + 1],
          exc |-> "none", ret |-> Len(prods) + 1]

(***************************************************************************)
(* add_price                                                               *)
(***************************************************************************)
\* mutant: the UPDATE that closes the current observation is left out
update_current_skipped(prs, product_id, valid_from) == prs

\* mutant: the UPDATE has no is_current condition
update_current_all_rows(prs, product_id, valid_from) ==
    [i \in 1..Len(prs) |->
        IF prs[i].product_id = product_id
        THEN [prs[i] EXCEPT !.is_current = FALSE, !.valid_until = valid_from]
        ELSE prs[i]]

\* mutant: the UPDATE has no product_id condition
update_current_any_product(prs, product_id, valid_from) ==
    [i \in 1..Len(prs) |->
        IF prs[i].is_current
        THEN [prs[i] EXCEPT !.is_current = FALSE, !.valid_until = valid_from]
        ELSE prs[i]]

\* mutant: only observations dated no later than the new one are closed
update_current_by_date(prs, product_id, valid_from) ==
    [i \in 1..Len(prs) |->
        IF /\ prs[i].product_id = product_id
           /\ prs[i].is_current
           /\ prs[i].valid_from <= valid_from
        THEN [prs[i] EXCEPT !.is_current = FALSE, !.valid_until = valid_from]
        ELSE prs[i]]

\* UPDATE prices SET is_current = 0, valid_until = ?
\*  WHERE product_id = ? AND is_current = 1
update_current(prs, product_id, valid_from) ==
    [i \in 1..Len(prs) |->
        IF prs[i].product_id = product_id /\ prs[i].is_current
        THEN [prs[i] EXCEPT !.is_current = FALSE, !.valid_until = valid_from]
        ELSE prs[i]]

\* mutant: the new observation is inserted as not current
insert_price_not_current(prs, product_id, price_value, valid_from, source_file) ==
    Append(prs, [id |-> Len(prs) + 1, product_id |-> product_id,
                 price |-> price_value, valid_from |-> valid_from,
                 valid_until |-> NullDate, source_file |-> source_file,
                 is_current |-> FALSE])

\* mutant: nothing is inserted when the product already has an observation
\* of the same date and price
insert_price_dedup(prs, product_id, price_value, valid_from, source_file) ==
    IF \E i \in 1..Len(prs) : /\ prs[i].product_id = product_id
                               /\ prs[i].valid_from = valid_from
                               /\ prs[i].price = price_value
    THEN prs
    ELSE Append(prs, [id |-> Len(prs) + 1, product_id |-> product_id,
                      price |-> price_value, valid_from |-> valid_from,
                      valid_until |-> NullDate, source_file |-> source_file,
                      is_current |-> TRUE])

\* INSERT INTO prices (product_id, price, valid_from, source_file, is_current)
\* VALUES (?, ?, ?, ?, 1)
insert_price(prs, product_id, price_value, valid_from, source_file) ==
    Append(prs, [id |-> Len(prs) + 1, product_id |-> product_id,
                 price |-> price_value, valid_from |-> valid_from,
                 valid_until |-> NullDate, source_file |-> source_file,
                 is_current |-> TRUE])

\* mutant: an unparseable price is dropped without an error entry
price_error_silent(st, product_id, price) == st

\* self.stats['errors'].append(f"Ungueltiger Preis fuer Produkt {product_id}: {price}")
price_error(st, product_id, price) ==
    [st EXCEPT !.errors = Append(@, [kind |-> "price", ref |-> product_id,
                                     msg |-> str(price)])]

price_absent_none_only(price) == price.kind = "none"

\* if price is None or pd.isna(price): return
price_absent(price) == price.kind = "none" \/ pd_isna(price)

add_price(prs, st, product_id, price, valid_from, source_file) ==
    IF price_absent(price)
    THEN [prices |-> prs, stats |-> st, exc |-> "none"]
    ELSE
    LET f == float(price)
    IN
    IF f.exc # "none"
    THEN [prices |-> prs, stats |-> price_error(st, product_id, price),
          exc |-> "none"]
    ELSE
    LET closed == update_current(prs, product_id, valid_from)
    IN
    IF f.nan
    \* NaN is bound as NULL and prices.price is REAL NOT NULL: the INSERT
    \* raises after the UPDATE has been executed
    THEN [prices |-> closed, stats |-> st, exc |-> "sqlite3.IntegrityError"]
    ELSE [prices |-> insert_price(closed, product_id, f.val, valid_from, source_file),
          stats |-> [st EXCEPT !.prices_added = @ + 1],
          exc |-> "none"]

(***************************************************************************)
(* import_excel_file                                                       *)
(***************************************************************************)
\* messages of the exceptions raised before the row loop
PreLoopErrors == {"Produktnummer-Spalte nicht gefunden!"}

\* the cell of a mapped column as the row loop extracts it
extract(cell) == IF pd_notna(cell) THEN Text(str(cell)) ELSE None

product_data_of(row) ==
    [product_number |-> extract(row.number),
     description |-> extract(row.description),
     category |-> extract(row.category),
     unit |-> extract(row.unit)]

\* if not product_data['product_number'] or product_data['product_number'] == 'nan'
skip_row(product_data) ==
    \/ ~truthy(product_data.product_number)
    \/ product_data.product_number = Text("nan")

row_error(st, i, exc) ==
    [st EXCEPT !.errors = Append(@, [kind |-> "row", ref |-> i + 2, msg |-> exc])]

\* mutant: a failed batch starts the statistics afresh
file_error_reset(st, f, exc) ==
    [files_processed |-> 0, products_added |-> 0, products_updated |-> 0,
     prices_added |-> 0,
     errors |-> <<[kind |-> "file", ref |-> f.valid_from, msg |-> exc]>>]

file_error(st, f, exc) ==
    [st EXCEPT !.errors = Append(@, [kind |-> "file", ref |-> f.valid_from, msg |-> exc])]

\* mutant: the handler records the error and forgets self.conn.rollback()
rollback_missing(seen, c) == seen

\* self.conn.rollback(): the connection sees the last commit again
rollback(seen, c) == c

\* df.empty: return False before anything is written
import_excel_file_empty ==
    /\ pc = "idle"
    /\ nbatches < MaxBatches
    /\ nbatches' = nbatches + 1
    /\ last' = [NoCall EXCEPT !.op = "empty"]
    /\ UNCHANGED <<writers, products, prices, committed, stats, pc, file, nrows, idx,
                   imported_count, skipped_count, rowlog, nread, stats0, store0, ncalls>>

\* an exception before the loop (a required column is missing):
\* the outer handler rolls back and records the error
import_excel_file_raise(f, msg) ==
    /\ pc = "idle"
    /\ nbatches < MaxBatches
    /\ nbatches' = nbatches + 1
    /\ LET r == rollback([products |-> products, prices |-> prices], committed)
       IN /\ products' = r.products
          /\ prices' = r.prices
    /\ stats' = file_error(stats, f, msg)
    /\ rowlog' = <<>>
    /\ stats0' = stats
    /\ store0' = [products |-> products, prices |-> prices]
    /\ last' = [NoCall EXCEPT !.op = "rollback", !.source_file = f.name,
                              !.valid_from = f.valid_from, !.exc = msg]
    /\ UNCHANGED <<writers, committed, pc, file, nrows, idx, imported_count,
                   skipped_count, nread, ncalls>>

\* the file is read and the loop is entered
import_excel_file_begin(f, n) ==
    /\ pc = "idle"
    /\ nbatches < MaxBatches
    /\ nread + n <= MaxRows
    /\ nbatches' = nbatches + 1
    /\ nread' = nread + n
    /\ pc' = "loop"
    /\ file' = f
    /\ nrows' = n
    /\ idx' = 0
    /\ imported_count' = 0
    /\ skipped_count' = 0
    /\ rowlog' = <<>>
    /\ stats0' = stats
    /\ store0' = [products |-> products, prices |-> prices]
    /\ last' = [NoCall EXCEPT !.op = "begin", !.source_file = f.name,
                              !.valid_from = f.valid_from]
    /\ UNCHANGED <<writers, products, prices, committed, stats, ncalls>>

\* what the price cell of a row is to add_price
price_class(price) ==
    IF price_absent(price) THEN "absent"
    ELSE IF float(price).exc # "none" THEN "text"
    ELSE IF float(price).nan THEN "nan"
    ELSE "number"

\* the faults that can strike a row: a skipped row executes no statement
reached(row) ==
    IF skip_row(product_data_of(row)) THEN {"none"} ELSE Faults

\* mutant: a row that raised ends the loop
next_row_stop_on_error(i, outcome) ==
    IF outcome = "ERRORED" THEN nrows ELSE i + 1

\* the row the loop goes on to after row i: `continue` after a skipped row,
\* the end of the except block after a failed one, the end of the loop body
\* after an imported one all lead to the following row
next_row(i, outcome) == i + 1

\* one iteration of `for idx, row in df.iterrows()`
import_excel_file_row(row, fault) ==
    /\ pc = "loop"
    /\ idx < nrows
    /\ fault \in reached(row)
    /\ LET product_data == product_data_of(row)
           g == get_or_create_product(products, stats, product_data, fault)
           a == add_price(prices, g.stats, g.ret, row.price, file.valid_from,
                          file.name)
           call == [NoCall EXCEPT !.op = "row", !.data = product_data,
                                  !.valid_from = file.valid_from,
                                  !.source_file = file.name, !.fault = fault]
       IN
       IF skip_row(product_data)
       THEN /\ skipped_count' = skipped_count + 1
            /\ last' = [call EXCEPT !.outcome = "SKIPPED"]
            /\ UNCHANGED <<products, prices, stats, imported_count>>
       ELSE IF g.exc # "none"
       THEN /\ products' = g.products
            /\ stats' = row_error(g.stats, idx, g.exc)
            /\ last' = [call EXCEPT !.outcome = "ERRORED", !.exc = g.exc]
            /\ UNCHANGED <<prices, imported_count, skipped_count>>
       ELSE IF a.exc # "none"
       THEN /\ products' = g.products
            /\ prices' = a.prices
            /\ stats' = row_error(a.stats, idx, a.exc)
            /\ last' = [call EXCEPT !.outcome = "ERRORED", !.exc = a.exc,
                                    !.price = row.price,
                                    !.product_id = g.ret, !.ret = g.ret]
            /\ UNCHANGED <<imported_count, skipped_count>>
       ELSE /\ products' = g.products
            /\ prices' = a.prices
            /\ stats' = a.stats
            /\ imported_count' = imported_count + 1
            /\ last' = [call EXCEPT !.outcome = "DONE", !.price = row.price,
                                    !.product_id = g.ret, !.ret = g.ret]
            /\ UNCHANGED skipped_count
    /\ idx' = next_row(idx, last'.outcome)
    /\ rowlog' = Append(rowlog, [product_number |-> last'.data.product_number,
                                 price |-> last'.price,
                                 outcome |-> last'.outcome,
                                 exc |-> last'.exc])
    /\ UNCHANGED <<writers, committed, pc, file, nrows, nread, stats0, store0, nbatches, ncalls>>

\* self.conn.commit() succeeds
import_excel_file_commit ==
    /\ pc = "loop"
    /\ idx = nrows
    /\ committed' = [products |-> products, prices |-> prices]
    /\ stats' = [stats EXCEPT !.files_processed = @ + 1]
    /\ pc' = "idle"
    /\ last' = [NoCall EXCEPT !.op = "commit", !.source_file = file.name,
                              !.valid_from = file.valid_from]
    /\ UNCHANGED <<writers, products, prices, file, nrows, idx, imported_count,
                   skipped_count, rowlog, nread, stats0, store0, nbatches, ncalls>>

\* self.conn.commit() raises: the outer handler rolls back
import_excel_file_rollback ==
    /\ pc = "loop"
    /\ idx = nrows
    /\ LET r == rollback([products |-> products, prices |-> prices], committed)
       IN /\ products' = r.products
          /\ prices' = r.prices
    /\ stats' = file_error(stats, file, "sqlite3.OperationalError")
    /\ pc' = "idle"
    /\ last' = [NoCall EXCEPT !.op = "rollback", !.source_file = file.name,
                              !.valid_from = file.valid_from, !.exc = "sqlite3.OperationalError"]
    /\ UNCHANGED <<writers, committed, file, nrows, idx, imported_count,
                   skipped_count, rowlog, nread, stats0, store0, nbatches, ncalls>>

Rows ==
    { [number |-> n, description |-> a.description, category |-> a.category,
       unit |-> a.unit, price |-> p] :
         n \in NumberCells, a \in AttrCells, p \in PriceCells }

Next ==
    \/ import_excel_file_empty
    \/ \E f \in Files, msg \in PreLoopErrors : import_excel_file_raise(f, msg)
    \/ \E f \in Files, n \in 1..MaxRows : import_excel_file_begin(f, n)
    \/ \E row \in Rows, fault \in Faults : import_excel_file_row(row, fault)
    \/ import_excel_file_commit
    \/ import_excel_file_rollback

Spec == Init /\ [][Next]_vars

\* import_excel_file is synchronous: once the loop is entered every row is
\* processed without waiting for anything, and after the last row commit()
\* returns or raises
SpecLive ==
    /\ Spec
    /\ WF_vars(\E row \in Rows, fault \in Faults : import_excel_file_row(row, fault))
    /\ WF_vars(import_excel_file_commit \/ import_excel_file_rollback)

(***************************************************************************)
(* Direct calls of the two methods on an open connection.  An exception    *)
(* goes to the caller; what the call wrote before it stays in the open     *)
(* transaction.                                                            *)
(***************************************************************************)
get_or_create_product_call(product_data) ==
    /\ pc = "idle"
    /\ ncalls < MaxCalls
    /\ ncalls' = ncalls + 1
    /\ LET g == get_or_create_product(products, stats, product_data, "none")
       IN /\ products' = g.products
          /\ stats' = g.stats
          /\ last' = [NoCall EXCEPT !.op = "get_or_create_product",
                                    !.data = product_data,
                                    !.exc = g.exc, !.ret = g.ret]
    /\ UNCHANGED <<writers, prices, committed, pc, file, nrows, idx, imported_count,
                   skipped_count, rowlog, nread, stats0, store0, nbatches>>

add_price_call(product_id, price, valid_from, source_file) ==
    /\ pc = "idle"
    /\ ncalls < MaxCalls
    /\ ncalls' = ncalls + 1
    /\ LET a == add_price(prices, stats, product_id, price, valid_from,
                          source_file)
       IN /\ prices' = a.prices
          /\ stats' = a.stats
          /\ last' = [NoCall EXCEPT !.op = "add_price",
                                    !.product_id = product_id,
                                    !.price = price,
                                    !.valid_from = valid_from,
                                    !.source_file = source_file,
                                    !.exc = a.exc,
                                    !.outcome =
                                        IF Len(a.prices) > Len(prices)
                                        THEN "inserted" ELSE "none"]
    /\ UNCHANGED <<writers, products, committed, pc, file, nrows, idx, imported_count,
                   skipped_count, rowlog, nread, stats0, store0, nbatches>>

ProductArgs ==
    { [product_number |-> n, description |-> a.description,
       category |-> a.category, unit |-> a.unit] :
         n \in NumberArgs, a \in AttrArgs }

NextCalls ==
    \/ \E product_data \in ProductArgs : get_or_create_product_call(product_data)
    \/ \E product_id \in ProductIds, price \in PriceArgs, s \in Stamps :
          add_price_call(product_id, price, s.valid_from, s.source_file)

SpecCalls == Init /\ [][NextCalls]_vars

(***************************************************************************)
(* SpecRace: two importers, each with its own connection and its own file, *)
(* call add_price on one database with no isolation between them: the     *)
(* UPDATE and the INSERT of a call are separate steps and the other        *)
(* writer's statements may fall between them.                              *)
(***************************************************************************)
\* the file writer w imports
WriterFile(w) == CHOOSE f \in Files : f.valid_from = w

\* add_price as far as its UPDATE (lines 191-208)
add_price_update(w, product_id, price) ==
    /\ writers[w].pc = "idle"
    /\ ncalls < MaxCalls
    /\ ncalls' = ncalls + 1
    /\ IF price_absent(price)
       THEN UNCHANGED <<prices, writers>>
       ELSE IF float(price).exc # "none"
       THEN /\ writers' = [writers EXCEPT ![w].stats =
                               price_error(@, product_id, price)]
            /\ UNCHANGED prices
       ELSE /\ prices' = update_current(prices, product_id,
                                        WriterFile(w).valid_from)
            /\ writers' = [writers EXCEPT ![w].pc = "updated",
                                          ![w].product_id = product_id,
                                          ![w].price = price,
                                          ![w].valid_from = WriterFile(w).valid_from,
                                          ![w].source_file = WriterFile(w).name]
    /\ UNCHANGED <<products, committed, stats, pc, file, nrows, idx,
                   imported_count, skipped_count, rowlog, nread, stats0,
                   store0, last, nbatches>>

\* the INSERT of the call and the counter (lines 210-216)
add_price_insert(w) ==
    /\ writers[w].pc = "updated"
    /\ LET f == float(writers[w].price)
       IN IF f.nan
          THEN /\ UNCHANGED prices
               /\ writers' = [writers EXCEPT ![w] =
                                  [IdleWriter EXCEPT !.stats = writers[w].stats]]
          ELSE /\ prices' = insert_price(prices, writers[w].product_id, f.val,
                                         writers[w].valid_from,
                                         writers[w].source_file)
               /\ writers' = [writers EXCEPT ![w] =
                                  [IdleWriter EXCEPT !.stats =
                                      [writers[w].stats EXCEPT !.prices_added = @ + 1]]]
    /\ UNCHANGED <<products, committed, stats, pc, file, nrows, idx,
                   imported_count, skipped_count, rowlog, nread, stats0,
                   store0, last, nbatches, ncalls>>

NextRace ==
    \/ \E w \in Writers, product_id \in ProductIds, price \in RacePrices :
          add_price_update(w, product_id, price)
    \/ \E w \in Writers : add_price_insert(w)

SpecRace == Init /\ [][NextRace]_vars

(***************************************************************************)
(* Properties of the price ledger (add_price), under SpecCalls             *)
(***************************************************************************)
\* the observation that follows observation i of the same product, in
\* insertion order (0 when i is the product's latest)
successor(i) ==
    LET later == {j \in (i + 1)..Len(prices) :
                     prices[j].product_id = prices[i].product_id}
    IN IF later = {} THEN 0 ELSE CHOOSE j \in later : \A k \in later : j <= k

\* float(price) is a number greater than zero
strictly_positive(price) ==
    /\ price.kind \in {"num", "text"}
    /\ float(price).exc = "none"
    /\ ~float(price).nan
    /\ float(price).val > 0

\* C1: at most one current observation per product.  From the empty store,
\* after any sequence of add_price calls (any product id, price, date and
\* source), no product has two observations with is_current = true.
AtMostOneCurrent ==
    \A i, j \in 1..Len(prices) :
        (/\ prices[i].product_id = prices[j].product_id
         /\ prices[i].is_current
         /\ prices[j].is_current) => i = j

\* C1 witness: a product with a superseded observation and a current one
AtMostOneCurrentWitness ==
    \E i, j \in 1..Len(prices) :
        /\ i < j
        /\ prices[i].product_id = prices[j].product_id
        /\ ~prices[i].is_current
        /\ prices[j].is_current

\* C2 (as claimed): supersede chain without gap or overlap.  Per product, in
\* insertion order, every observation that has a successor is non-current
\* and its valid_until is the valid_from of its successor; the observation a
\* call has just inserted is current with valid_until NULL.
SupersedeChain ==
    /\ \A i \in 1..Len(prices) :
          successor(i) # 0 =>
              /\ ~prices[i].is_current
              /\ prices[i].valid_until = prices[successor(i)].valid_from
    /\ (last.op = "add_price" /\ last.outcome = "inserted") =>
              /\ prices[Len(prices)].is_current
              /\ prices[Len(prices)].valid_until = NullDate
              /\ prices[Len(prices)].valid_from = last.valid_from

\* C3 (as claimed): price rejection.  An add_price call whose price is not a
\* strictly positive number inserts nothing and changes no observation.
PriceRejection ==
    [][(last'.op = "add_price" /\ ~strictly_positive(last'.price))
          => prices' = prices]_vars

\* C7: idempotent product resolution.  get_or_create_product called with a
\* non-empty product_number that a previous call has stored returns that
\* product's id, leaves exactly one product with the number, and leaves the
\* product's description, category and unit equal to the values supplied
\* by this call, None included.
IdempotentResolution ==
    [][\A i \in 1..Len(products) :
          (/\ last'.op = "get_or_create_product"
           /\ truthy(last'.data.product_number)
           /\ products[i].product_number = last'.data.product_number.txt)
          => /\ last'.exc = "none"
             /\ last'.ret = products[i].id
             /\ Len(products') = Len(products)
             /\ \A j \in 1..Len(products') :
                   products'[j].product_number = products[i].product_number
                       <=> j = i
             /\ products'[i].id = products[i].id
             /\ products'[i].description = last'.data.description
             /\ products'[i].category = last'.data.category
             /\ products'[i].unit = last'.data.unit]_vars

\* C7 witness: a second call for a stored number has overwritten the
\* attributes with None
IdempotentResolutionWitness ==
    /\ last.op = "get_or_create_product"
    /\ last.ret # 0
    /\ stats.products_updated >= 1
    /\ last.data.description = None
    /\ \E i \in 1..Len(products) :
          products[i].id = last.ret /\ products[i].description = None

(***************************************************************************)
(* Properties of import_excel_file, under Spec                             *)
(***************************************************************************)
\* the product stored under the product number of row i of the batch
product_of_row(i) ==
    {k \in 1..Len(products) :
        products[k].product_number = rowlog[i].product_number.txt}

\* the observations the running batch has inserted for row i's product
new_prices_of_row(i) ==
    {k \in (Len(store0.prices) + 1)..Len(prices) :
        \E q \in product_of_row(i) : prices[k].product_id = products[q].id}

\* products created or updated since the batch began
products_touched ==
    (stats.products_added + stats.products_updated)
        - (stats0.products_added + stats0.products_updated)

\* a finished batch of records with distinct, present product numbers, of
\* which exactly one has a present but non-numeric price and every other a
\* valid price, and in which no storage statement raised
OneBadPrice ==
    /\ Len(rowlog) = nrows
    /\ \A i \in 1..nrows :
          /\ rowlog[i].outcome # "SKIPPED"
          /\ rowlog[i].exc = "none"
          /\ truthy(rowlog[i].product_number)
          /\ price_class(rowlog[i].price) = "text"
                \/ strictly_positive(rowlog[i].price)
    /\ \A i, j \in 1..nrows :
          rowlog[i].product_number = rowlog[j].product_number => i = j
    /\ Cardinality({i \in 1..nrows : price_class(rowlog[i].price) = "text"}) = 1

\* what C4 says of the error list and the observations
OneBadPriceObservations ==
    /\ committed = [products |-> products, prices |-> prices]
    /\ Len(stats.errors) = Len(stats0.errors) + 1
    /\ Len(prices) = Len(store0.prices) + nrows - 1
    /\ stats.prices_added = stats0.prices_added + nrows - 1
    /\ \A i \in 1..nrows :
          Cardinality(new_prices_of_row(i)) =
              IF strictly_positive(rowlog[i].price) THEN 1 ELSE 0

\* C4 (as claimed): partial-failure isolation.  Such a batch commits with
\* one more error, n-1 observations and n-1 products recorded: the failing
\* record contributes neither an observation nor a product.
PartialFailureIsolationClaimed ==
    (last.op = "commit" /\ OneBadPrice) =>
        /\ OneBadPriceObservations
        /\ products_touched = nrows - 1
        /\ Len(products) - Len(store0.products) <= nrows - 1

\* C4 (amended): such a batch commits with one more error and n-1
\* observations, none of them rolled back; all n products are recorded:
\* the failing record's product is created or updated like the others, and
\* only its observation is missing.
PartialFailureIsolation ==
    (last.op = "commit" /\ OneBadPrice) =>
        /\ OneBadPriceObservations
        /\ products_touched = nrows
        /\ \A i \in 1..nrows : Cardinality(product_of_row(i)) = 1

\* C4 witness: a committed batch of two records, one with a bad price
PartialFailureIsolationWitness ==
    /\ last.op = "commit"
    /\ OneBadPrice
    /\ nrows >= 2

\* C5: batch rollback.  When the commit after the row loop fails, the
\* products and the observations are those of the moment the batch began.
BatchRollback ==
    last.op = "rollback" =>
        /\ products = store0.products
        /\ prices = store0.prices
        /\ committed = store0

\* C5 witness: a rolled back batch that had inserted an observation into a
\* store holding observations of an earlier batch
BatchRollbackWitness ==
    /\ last.op = "rollback"
    /\ Len(store0.prices) >= 1
    /\ stats.prices_added > stats0.prices_added
    /\ \E i \in 1..Len(rowlog) : rowlog[i].outcome = "DONE"

\* C6 (as claimed): add_price is atomic.  A row never closes a current
\* observation without inserting the new observation of that product.
PriceAtomicity ==
    [][last'.op = "row" =>
          \A i \in 1..Len(prices) :
              (prices[i].is_current /\ ~prices'[i].is_current) =>
                  /\ Len(prices') = Len(prices) + 1
                  /\ prices'[Len(prices')].product_id = prices[i].product_id
                  /\ prices'[Len(prices')].is_current]_vars

\* whitespace-only strings among the product numbers read
Whitespace == {" "}

\* an empty, blank or missing-value product number
blank(product_number) ==
    \/ ~truthy(product_number)
    \/ product_number.txt \in Whitespace
    \/ product_number.txt = "nan"

\* C8 (as claimed): skip versus error.  A record whose product number is
\* empty, blank (whitespace only included) or 'nan' is counted as skipped,
\* adds no error and writes nothing.
SkipBlank ==
    [][(last'.op = "row" /\ blank(last'.data.product_number)) =>
          /\ last'.outcome = "SKIPPED"
          /\ skipped_count' = skipped_count + 1
          /\ stats' = stats
          /\ products' = products
          /\ prices' = prices]_vars

\* a batch of exactly one record with a product number and a valid price,
\* ingested into an empty store and committed
OneRecordBatch ==
    /\ last.op = "commit"
    /\ store0 = [products |-> <<>>, prices |-> <<>>]
    /\ nrows = 1
    /\ rowlog[1].outcome = "DONE"
    /\ strictly_positive(rowlog[1].price)

InitStats ==
    [files_processed |-> 0, products_added |-> 0, products_updated |-> 0,
     prices_added |-> 0, errors |-> <<>>]

\* C9: boundary.  One record into an empty store gives exactly one product
\* and one observation, current and with valid_until NULL; the batch adds
\* one to products_added and to prices_added and no error, so that a new
\* importer reports products_added = 1, prices_added = 1 and no errors.
Boundary ==
    OneRecordBatch =>
        /\ Len(products) = 1
        /\ Len(prices) = 1
        /\ prices[1].is_current
        /\ prices[1].valid_until = NullDate
        /\ prices[1].product_id = products[1].id
        /\ committed = [products |-> products, prices |-> prices]
        /\ stats.products_added = stats0.products_added + 1
        /\ stats.prices_added = stats0.prices_added + 1
        /\ stats.errors = stats0.errors
        /\ stats0 = InitStats =>
              /\ stats.products_added = 1
              /\ stats.prices_added = 1
              /\ stats.errors = <<>>

\* C9 witness: such a batch on a new importer
BoundaryWitness == OneRecordBatch /\ stats0 = InitStats

\* exceptions of the storage layer
StorageErrors == {"sqlite3.OperationalError"}

\* C10 (as claimed): storage errors are batch-level.  Once a storage
\* statement has raised in a row, the batch is over and rolled back: no
\* further row is processed and nothing of the batch is committed.
StorageErrorsFatal ==
    (\E i \in 1..Len(rowlog) : rowlog[i].exc \in StorageErrors) =>
        /\ pc = "idle"
        /\ last.op = "rollback"
        /\ products = store0.products
        /\ prices = store0.prices

\* C11 (as claimed): between batches the statistics of the importer match
\* the store it filled from empty: products_added is the number of products
\* in the store and prices_added the number of price observations in it,
\* and no more files are counted than batches were run.
StatsMatchStore ==
    pc = "idle" =>
        /\ stats.products_added = Len(committed.products)
        /\ stats.prices_added = Len(committed.prices)
        /\ stats.files_processed <= nbatches

\* C12: add_price with an absent price (None or NaN) is a no-op: it inserts
\* no observation, leaves every existing observation as it is (the current
\* one stays current with no valid_until), leaves prices_added alone, adds
\* no error entry and raises nothing.
AbsentPriceNoOp ==
    [][(last'.op = "add_price" /\ last'.price \in {None, NaN}) =>
          /\ prices' = prices
          /\ products' = products
          /\ stats' = stats
          /\ last'.exc = "none"]_vars

\* an absent price was offered for a product that has a current observation
AbsentPriceNoOpWitness ==
    /\ last.op = "add_price"
    /\ last.price \in {None, NaN}
    /\ \E i \in 1..Len(prices) :
          /\ prices[i].product_id = last.product_id
          /\ prices[i].is_current
          /\ prices[i].valid_until = NullDate

\* C13: get_or_create_product with a product_number that is None or the
\* empty string raises ValueError before any statement runs: the products
\* (their attributes included), the observations and the counters
\* products_added / products_updated are as before the call.
MissingNumberRejected ==
    [][(last'.op = "get_or_create_product"
          /\ last'.data.product_number \in {None, Text("")}) =>
          /\ last'.exc = "ValueError"
          /\ last'.ret = 0
          /\ products' = products
          /\ prices' = prices
          /\ stats' = stats]_vars

\* the call was rejected on a store that holds a product and an observation
MissingNumberRejectedWitness ==
    /\ last.op = "get_or_create_product"
    /\ last.data.product_number \in {None, Text("")}
    /\ last.exc = "ValueError"
    /\ Len(products) > 0
    /\ Len(prices) > 0

\* a price add_price takes as far as its INSERT, which then succeeds
accepted_price(price) ==
    /\ price.kind \in {"num", "text"}
    /\ float(price).exc = "none"
    /\ ~float(price).nan

\* the observations of a product in a prices table
observations_of(prs, product_id) ==
    {i \in 1..Len(prs) : prs[i].product_id = product_id}

\* C14: no deduplication.  Every accepted add_price call adds exactly one
\* observation to its product, also when the product's current observation
\* has the same valid_from and price.  After the call every earlier
\* observation of the product is non-current, the one that was current is
\* closed at the date of the call, and the one new observation is current:
\* so a record imported a second time doubles its observations, the first
\* pass's closed at the shared date and one of the second pass's current.
NoDeduplication ==
    [][(last'.op = "add_price" /\ accepted_price(last'.price)) =>
          LET p == last'.product_id
          IN /\ Len(prices') = Len(prices) + 1
             /\ Cardinality(observations_of(prices', p)) =
                    Cardinality(observations_of(prices, p)) + 1
             /\ \A i \in observations_of(prices, p) :
                    /\ ~prices'[i].is_current
                    /\ prices[i].is_current =>
                           prices'[i].valid_until = last'.valid_from
             /\ prices'[Len(prices')].product_id = p
             /\ prices'[Len(prices')].is_current
             /\ prices'[Len(prices')].valid_from = last'.valid_from
             /\ stats'.prices_added = stats.prices_added + 1]_vars

\* the same record was recorded twice: two observations of one product
\* with the same date, price and source, the first closed at that date and
\* the second, just inserted, current
NoDeduplicationWitness ==
    /\ last.op = "add_price"
    /\ Len(prices) >= 2
    /\ LET new == prices[Len(prices)]
           old == prices[Len(prices) - 1]
       IN /\ old.product_id = new.product_id
          /\ old.valid_from = new.valid_from
          /\ old.price = new.price
          /\ old.source_file = new.source_file
          /\ ~old.is_current
          /\ old.valid_until = new.valid_from
          /\ new.is_current

\* C15 (as claimed): add_price for a product_id that no product carries is
\* refused with an error and inserts nothing, so every observation's
\* product_id is the id of a product in the store.
ReferentialIntegrity ==
    /\ \A i \in 1..Len(prices) :
          \E k \in 1..Len(products) : products[k].id = prices[i].product_id
    /\ (/\ last.op = "add_price"
        /\ accepted_price(last.price)
        /\ \A k \in 1..Len(products) : products[k].id # last.product_id)
          => (last.outcome = "none" /\ last.exc # "none")

\* C16: the current observation is a rolling pointer.  Right after an
\* accepted add_price call its product has exactly one current observation,
\* the one the call inserted, whatever the valid_from dates are; and at any
\* time a current observation is the latest inserted of its product, not
\* the one with the greatest valid_from.
RollingCurrent ==
    /\ \A i \in 1..Len(prices) : prices[i].is_current => successor(i) = 0
    /\ (last.op = "add_price" /\ accepted_price(last.price)) =>
          /\ Len(prices) > 0
          /\ prices[Len(prices)].product_id = last.product_id
          /\ prices[Len(prices)].valid_from = last.valid_from
          /\ {i \in observations_of(prices, last.product_id) :
                 prices[i].is_current} = {Len(prices)}

\* prices were recorded out of date order: the current observation, just
\* inserted, is dated before an earlier observation of its product
RollingCurrentWitness ==
    /\ last.op = "add_price"
    /\ accepted_price(last.price)
    /\ Len(prices) > 0
    /\ prices[Len(prices)].is_current
    /\ \E i \in observations_of(prices, last.product_id) :
          /\ i < Len(prices)
          /\ prices[i].valid_from > prices[Len(prices)].valid_from
          /\ ~prices[i].is_current

\* every observation of table old is still in table new, with the price,
\* valid_from, source_file and product_id it had
kept(old, new) ==
    /\ Len(new) >= Len(old)
    /\ \A i \in 1..Len(old) :
          /\ new[i].id = old[i].id
          /\ new[i].product_id = old[i].product_id
          /\ new[i].price = old[i].price
          /\ new[i].valid_from = old[i].valid_from
          /\ new[i].source_file = old[i].source_file

\* C17: the price history is append-only with supersede.  No step of an
\* import removes a committed observation or changes its price, valid_from,
\* source_file or product_id; within the open transaction the same holds
\* of every step but the rollback, which drops exactly the observations
\* that were never committed; and a row that records a price for one
\* product changes no field of an observation of another product.
AppendOnly ==
    [][/\ kept(committed.prices, committed'.prices)
       /\ last'.op # "rollback" => kept(prices, prices')
       /\ last'.op = "rollback" => prices' = committed.prices
       /\ last'.op = "row" =>
             \A i \in 1..Len(prices) :
                prices[i].product_id # last'.product_id =>
                    prices'[i] = prices[i]]_vars

\* a row recorded a price for one product, superseding that product's
\* earlier observation or not, while another product has an observation
AppendOnlyWitness ==
    /\ last.op = "row"
    /\ last.outcome = "DONE"
    /\ Len(prices) > Len(store0.prices)
    /\ prices[Len(prices)].product_id = last.product_id
    /\ \E i \in 1..Len(prices) :
          /\ prices[i].product_id # last.product_id
          /\ prices[i].is_current

\* the final states of a row
RowOutcomes == {"DONE", "SKIPPED", "ERRORED"}

\* C19: rows and batch progress.  The rows of a batch are processed in
\* order, one per step and each once; every processed row has exactly one
\* of the outcomes DONE, SKIPPED, ERRORED; after a skipped or failed row the
\* following row is still processed; a started batch ends, and when its
\* commit does not fail it ends committed with every row processed and
\* files_processed one higher; no other step changes files_processed.
RowsThenCommit ==
    /\ [](pc = "loop" =>
            /\ idx <= nrows
            /\ Len(rowlog) = idx
            /\ \A i \in 1..Len(rowlog) : rowlog[i].outcome \in RowOutcomes
            /\ imported_count =
                  Cardinality({i \in 1..Len(rowlog) : rowlog[i].outcome = "DONE"})
            /\ skipped_count =
                  Cardinality({i \in 1..Len(rowlog) : rowlog[i].outcome = "SKIPPED"}))
    /\ [][/\ (pc = "loop" /\ pc' = "loop") =>
              /\ idx' = idx + 1
              /\ Len(rowlog') = Len(rowlog) + 1
              /\ \A i \in 1..Len(rowlog) : rowlog'[i] = rowlog[i]
              /\ stats'.files_processed = stats.files_processed
          /\ (pc = "loop" /\ pc' = "idle") =>
              /\ idx = nrows
              /\ Len(rowlog) = nrows
              /\ stats'.files_processed =
                    IF last'.op = "commit" THEN stats.files_processed + 1
                    ELSE stats.files_processed
              /\ last'.op = "commit" =>
                    committed' = [products |-> products, prices |-> prices]
          /\ pc = "idle" => stats'.files_processed = stats.files_processed]_vars
    /\ \A k \in 0..(MaxRows - 1) :
          (pc = "loop" /\ idx = k /\ k < nrows) ~> (pc = "loop" /\ idx = k + 1)
    /\ (pc = "loop") ~> (pc = "idle" /\ last.op \in {"commit", "rollback"})

\* a batch was committed whose first row was skipped or failed and whose
\* second row was imported
RowsThenCommitWitness ==
    /\ last.op = "commit"
    /\ pc = "idle"
    /\ nrows = 2
    /\ Len(rowlog) = 2
    /\ rowlog[1].outcome \in {"SKIPPED", "ERRORED"}
    /\ rowlog[2].outcome = "DONE"
    /\ stats.files_processed = stats0.files_processed + 1

\* C20: the statistics are cumulative.  No step of any batch, committed
\* or rolled back, lowers files_processed, products_added, products_updated
\* or prices_added, and the error list only grows at its end: the entries
\* it had stay where they were, and what a row appends refers to that row.
CumulativeStats ==
    [][/\ stats'.files_processed >= stats.files_processed
       /\ stats'.products_added >= stats.products_added
       /\ stats'.products_updated >= stats.products_updated
       /\ stats'.prices_added >= stats.prices_added
       /\ Len(stats'.errors) >= Len(stats.errors)
       /\ \A i \in 1..Len(stats.errors) : stats'.errors[i] = stats.errors[i]
       /\ \A i \in (Len(stats.errors) + 1)..Len(stats'.errors) :
             stats'.errors[i].kind = "row" => stats'.errors[i].ref = idx + 2]_vars

\* a batch was rolled back on an importer that had committed a batch and
\* recorded an error before: the counters and the earlier error are kept
CumulativeStatsWitness ==
    /\ last.op = "rollback"
    /\ stats.files_processed > 0
    /\ stats.products_added > 0
    /\ Len(stats.errors) >= 2
    /\ stats.errors[1].kind # "file"
    /\ stats.errors[Len(stats.errors)].kind = "file"

\* every product of table old is still in table new, with the id and the
\* product_number it had
same_keys(old, new) ==
    /\ Len(new) >= Len(old)
    /\ \A i \in 1..Len(old) :
          /\ new[i].id = old[i].id
          /\ new[i].product_number = old[i].product_number

\* C21: product_number is a unique business key.  In every state no two
\* products share a product_number or an id, also when a product_number
\* occurs in several rows of a batch; and a product keeps its id and its
\* product_number: no step changes them on a committed product, and within
\* the open transaction only the rollback removes products, those that
\* were never committed.
UniqueBusinessKey ==
    /\ [](\A i, j \in 1..Len(products) :
            (products[i].product_number = products[j].product_number
                \/ products[i].id = products[j].id) => i = j)
    /\ [][/\ same_keys(committed.products, committed'.products)
          /\ last'.op # "rollback" => same_keys(products, products')
          /\ last'.op = "rollback" => products' = committed.products]_vars

\* a batch resolved the same product_number in two rows: the first created
\* the product, the second found it
UniqueBusinessKeyWitness ==
    /\ last.op = "row"
    /\ Len(rowlog) = 2
    /\ rowlog[1].product_number = rowlog[2].product_number
    /\ rowlog[1].outcome = "DONE"
    /\ rowlog[2].outcome = "DONE"
    /\ Len(products) = Len(store0.products) + 1
    /\ stats.products_updated = stats0.products_updated + 1

\* C23: counter accounting of a batch.  A row that is not skipped and whose
\* product is resolved raises exactly one of products_added and
\* products_updated by one, products_added exactly when its product_number
\* was not in the store, and raises prices_added by at most one; a row that
\* is skipped or whose resolution fails raises none of the three.  Hence
\* prices_added <= products_added + products_updated in every state.
CounterAccounting ==
    /\ [](stats.prices_added <= stats.products_added + stats.products_updated)
    /\ [][last'.op = "row" =>
            LET resolved == last'.outcome # "SKIPPED" /\ last'.ret # 0
                known == \E k \in 1..Len(products) :
                            products[k].product_number =
                                last'.data.product_number.txt
                added == stats'.products_added - stats.products_added
                updated == stats'.products_updated - stats.products_updated
                priced == stats'.prices_added - stats.prices_added
            IN IF resolved
               THEN /\ added = (IF known THEN 0 ELSE 1)
                    /\ updated = (IF known THEN 1 ELSE 0)
                    /\ priced \in {0, 1}
               ELSE added = 0 /\ updated = 0 /\ priced = 0]_vars

\* a row has just updated a product that was in the store and recorded a
\* price, and every resolved row so far has recorded one
CounterAccountingWitness ==
    /\ last.op = "row"
    /\ last.outcome = "DONE"
    /\ stats.products_updated > 0
    /\ stats.prices_added = stats.products_added + stats.products_updated
    /\ Len(prices) > Len(products)

\* C22: superseded observations are final.  No add_price call changes
\* the is_current or the valid_until of an observation that is not current:
\* is_current never goes from false to true, and valid_until is written
\* only in the step that supersedes the observation, which had none before,
\* so at most once.
SupersededFinal ==
    [][\A i \in 1..Len(prices) :
          /\ Len(prices') >= Len(prices)
          /\ ~prices[i].is_current =>
                /\ ~prices'[i].is_current
                /\ prices'[i].valid_until = prices[i].valid_until
          /\ prices'[i].valid_until # prices[i].valid_until =>
                /\ prices[i].is_current
                /\ ~prices'[i].is_current
                /\ prices[i].valid_until = NullDate
                /\ prices'[i].valid_until = last'.valid_from]_vars

\* an observation superseded by an earlier call has come unchanged through
\* a later accepted call for its product, made with another date
SupersededFinalWitness ==
    /\ last.op = "add_price"
    /\ accepted_price(last.price)
    /\ \E i \in observations_of(prices, last.product_id) :
          /\ ~prices[i].is_current
          /\ prices[i].valid_until # NullDate
          /\ prices[i].valid_until # last.valid_from

(***************************************************************************)
(* Properties of concurrent add_price calls, under SpecRace                *)
(***************************************************************************)
\* the current observations of a product
current_of(product_id) ==
    {i \in 1..Len(prices) :
        prices[i].product_id = product_id /\ prices[i].is_current}

\* C18: the race of two writers.  When the UPDATE and the INSERT of two
\* add_price calls for one product interleave, the product can be left with
\* two current observations (the witness); it never has more current
\* observations than there are writers, and two current observations of one
\* product always come from different writers.
RaceTwoCurrent ==
    \A p \in ProductIds :
        /\ Cardinality(current_of(p)) <= Cardinality(Writers)
        /\ \A i, j \in current_of(p) :
              prices[i].source_file = prices[j].source_file => i = j

\* both calls are over and their product has two current observations
RaceTwoCurrentWitness ==
    /\ \A w \in Writers : writers[w].pc = "idle"
    /\ \E p \in ProductIds : Cardinality(current_of(p)) = 2

(***************************************************************************)
(* Presentation layer (mediprice_app/app.py): the price history of a       *)
(* product and the statistics shown with it                                *)
(***************************************************************************)
\* SELECT price, valid_from, source_file FROM prices WHERE product_id = ?
\* ORDER BY valid_from ASC: the rows of the product by ascending
\* valid_from.  SQL leaves the order of rows with equal valid_from open, so
\* this is the set of the results the query can return.
get_price_history(prs, product_id) ==
    LET rows == observations_of(prs, product_id)
        n == Cardinality(rows)
        orders == {f \in [1..n -> rows] :
                     /\ \A a, b \in 1..n : f[a] = f[b] => a = b
                     /\ \A a, b \in 1..n :
                           a < b => prs[f[a]].valid_from <= prs[f[b]].valid_from}
    IN {[k \in 1..n |-> [price |-> prs[f[k]].price,
                         valid_from |-> prs[f[k]].valid_from,
                         source_file |-> prs[f[k]].source_file]] : f \in orders}

RECURSIVE sum(_)
sum(price_values) ==
    IF price_values = <<>> THEN 0
    ELSE Head(price_values) + sum(Tail(price_values))

\* calculate_price_statistics(prices).  A quotient is kept as numerator and
\* denominator; `none` stands for the None returned for an empty history.
calculate_price_statistics(history) ==
    IF history = <<>>
    THEN [none |-> TRUE, min |-> 0, max |-> 0, avg |-> [num |-> 0, den |-> 1],
          current |-> 0, change |-> 0,
          change_percent |-> [num |-> 0, den |-> 1], count |-> 0]
    ELSE
    LET price_values == [k \in 1..Len(history) |->
                            float(Num(history[k].price)).val]
        values == {price_values[k] : k \in 1..Len(price_values)}
        current_price == price_values[Len(price_values)]
        first_price == price_values[1]
        several == Len(price_values) > 1
    IN [none |-> FALSE,
        min |-> CHOOSE v \in values : \A u \in values : v <= u,
        max |-> CHOOSE v \in values : \A u \in values : v >= u,
        avg |-> [num |-> sum(price_values), den |-> Len(price_values)],
        current |-> current_price,
        change |-> IF several THEN current_price - first_price ELSE 0,
        change_percent |->
            IF several /\ first_price > 0
            THEN [num |-> (current_price - first_price) * 100, den |-> first_price]
            ELSE [num |-> 0, den |-> 1],
        count |-> Len(price_values)]

\* C24 (as claimed): the presentation layer and the ledger agree on the
\* latest price.  For every product with a current observation and
\* positive prices only, the 'current' value of the statistics computed
\* over its price history is the price of the observation marked
\* is_current, whatever the order of the dates in which the prices were
\* recorded.  Observations of equal valid_from may come in any order; the
\* claim is read in its weakest form: one of the orders the query can
\* return agrees with the ledger.
PresentationAgrees ==
    \A p \in ProductIds :
        (/\ current_of(p) # {}
         /\ \A i \in observations_of(prices, p) : prices[i].price > 0) =>
            \E history \in get_price_history(prices, p) :
                \E i \in current_of(p) :
                    calculate_price_statistics(history).current = prices[i].price

====
